---- MODULE Spec2Model ----
(***************************************************************************)
(* Expiry-notification scheduling engine of passportControl.               *)
(*                                                                         *)
(* Time is a count of hours since local midnight of day 0 (1 January of a  *)
(* non-leap year); a date is a day ordinal, date.today() is now \div 24    *)
(* and datetime.now().hour is now % 24.  A timestamp is the hour count at  *)
(* which it was taken.                                                     *)
(***************************************************************************)
EXTENDS Integers, Sequences, FiniteSets, TLC

VARIABLES
    now,               \* the wall clock, in hours
    people,            \* rows of table people: the set of person ids
    documents,         \* rows of table documents: id -> [holder_id, expiry_date]
    settings,          \* rows of table settings: key -> stored text
    running,           \* NotificationScheduler.running
    last_daily_check,  \* NotificationScheduler.last_daily_check: <<>> is None, <<d>> a date
    workers,           \* the threads start() has created, oldest first; the last is self.thread
    pushover_enabled,  \* PushoverClient.enabled, computed once at construction
    caldav_enabled,    \* CalDAVClient.enabled and calendar available
    evaluated,         \* the last two evaluations of date_utils, newest last
    lastOp,            \* the operation that ran last, "none" when it leaves no trace
    calls,             \* the channel calls of that evaluation, in call order
    result,            \* its counters (check_now returns them)
    preHistory,        \* notification_history as it was when that evaluation began
    prev               \* the calls of the check_now that ran immediately before it

vars == <<now, people, documents, settings, running, last_daily_check, workers,
          pushover_enabled, caldav_enabled, evaluated, lastOp, calls, result,
          preHistory, prev>>

-----------------------------------------------------------------------------
(* Bounds of the model *)

MaxDay == 1
MaxDocs == 2
MaxPeople == 1
MaxWorkers == 2

\* the local hours at which anything is observed to happen
ObservedHours == {8, 23}

\* expiry dates (day ordinals) a document is given
ExpiryChoices == {-5, 1, 2, 31, 181}

\* what the settings page stores as a custom schedule
CustomSchedules == {<<181, 31, 2>>}
LaterExpiryChoices == {250}

Instants == {d * 24 + h : d \in 0..MaxDay, h \in ObservedHours}
DocIds == 1..MaxDocs
PersonIds == 1..MaxPeople
HolderIds == 1..(MaxPeople + 1)

-----------------------------------------------------------------------------
(* Python values kept in the settings store carry their type *)

PyDict(f) == [py |-> "dict", v |-> f]
PyList(s) == [py |-> "list", v |-> s]
PyBool(b) == [py |-> "bool", v |-> b]
PyStr(s) == [py |-> "str", v |-> s]

\* str(value) of a bool
str(value) == IF value.v THEN "True" ELSE "False"

\* bool(value): Python truthiness
truthy(value) ==
    CASE value.py = "bool" -> value.v
      [] value.py = "str" -> value.v # ""
      [] value.py = "list" -> Len(value.v) > 0
      [] value.py = "dict" -> DOMAIN value.v # {}

\* DatabaseManager.set_setting: dicts and lists are stored as JSON text,
\* anything else as str(value)
set_setting(store, key, value) ==
    LET value_str == IF value.py \in {"dict", "list"}
                     THEN [text |-> "json", val |-> value]
                     ELSE [text |-> "str", val |-> str(value)]
    IN [k \in DOMAIN store \cup {key} |-> IF k = key THEN value_str ELSE store[k]]

\* DatabaseManager.get_setting: json.loads of the stored text, the raw text
\* when that fails ("True" and "False" are not JSON), the default when absent
get_setting(store, key, default) ==
    IF key \in DOMAIN store
    THEN IF store[key].text = "json"
         THEN store[key].val
         ELSE PyStr(store[key].val)
    ELSE default

-----------------------------------------------------------------------------
(* utils/date_utils.py *)

\* days before the first of each month of a non-leap year
MonthStart == <<0, 31, 59, 90, 120, 151, 181, 212, 243, 273, 304, 334, 365>>

Year(n) == n \div 365
MonthOfDay == [doy \in 0..364 |->
                  CHOOSE m \in 1..12 : MonthStart[m] <= doy /\ doy < MonthStart[m + 1]]
Month(n) == MonthOfDay[n % 365]
Day(n) == (n % 365) - MonthStart[Month(n)] + 1
MonthLen(m) == MonthStart[m + 1] - MonthStart[m]

\* date + relativedelta(months=k): the day of month is clipped to the month's end
AddMonths(n, k) ==
    LET total == Year(n) * 12 + (Month(n) - 1) + k
        m == (total % 12) + 1
        d == IF Day(n) > MonthLen(m) THEN MonthLen(m) ELSE Day(n)
    IN (total \div 12) * 365 + MonthStart[m] + d - 1

\* relativedelta(d1, d2).months + relativedelta(d1, d2).years * 12 for d1 >= d2:
\* the calendar-month difference, lowered while d2 + months overshoots d1
RECURSIVE LowerMonths(_, _, _)
LowerMonths(d1, d2, months) ==
    IF d1 < AddMonths(d2, months) THEN LowerMonths(d1, d2, months - 1) ELSE months

months_between(d1, d2) ==
    LowerMonths(d1, d2, (Year(d1) - Year(d2)) * 12 + (Month(d1) - Month(d2)))

days_until_expiry(expiry_date, today) == expiry_date - today

\* mutant: the month thresholds are exclusive
get_expiry_status_exclusive(expiry_date, today) ==
    LET days == expiry_date - today
        months == months_between(expiry_date, today)
    IN IF days < 0 THEN <<"red", "Expired">>
       ELSE IF days <= 7 THEN <<"red", "Critical">>
       ELSE IF days <= 30 THEN <<"red", "Urgent">>
       ELSE IF months < 3 THEN <<"orange", "ActNow">>
       ELSE IF months < 6 THEN <<"yellow", "PlanRenewal">>
       ELSE <<"green", "Safe">>

\* mutant: the months are the difference of the month numbers
get_expiry_status_monthNumbers(expiry_date, today) ==
    LET days == expiry_date - today
        months == (Year(expiry_date) - Year(today)) * 12
                  + (Month(expiry_date) - Month(today))
    IN IF days < 0 THEN <<"red", "Expired">>
       ELSE IF days <= 7 THEN <<"red", "Critical">>
       ELSE IF days <= 30 THEN <<"red", "Urgent">>
       ELSE IF months <= 3 THEN <<"orange", "ActNow">>
       ELSE IF months <= 6 THEN <<"yellow", "PlanRenewal">>
       ELSE <<"green", "Safe">>

\* lines 13-29: the status of a document that has an expiry date
get_expiry_status(expiry_date, today) ==
    LET days == expiry_date - today
        months == months_between(expiry_date, today)
    IN IF days < 0 THEN <<"red", "Expired">>
       ELSE IF days <= 7 THEN <<"red", "Critical">>
       ELSE IF days <= 30 THEN <<"red", "Urgent">>
       ELSE IF months <= 3 THEN <<"orange", "ActNow">>
       ELSE IF months <= 6 THEN <<"yellow", "PlanRenewal">>
       ELSE <<"green", "Safe">>

-----------------------------------------------------------------------------
(* database/models.py: the document and person store *)

today == now \div 24
hour == now % 24

Document(id) == [id |-> id, holder_id |-> documents[id].holder_id,
                 expiry_date |-> documents[id].expiry_date]

\* the row that ORDER BY expiry_date puts first among ids
FirstByExpiry(ids) ==
    CHOOSE d \in ids : \A e \in ids :
        \/ documents[d].expiry_date < documents[e].expiry_date
        \/ documents[d].expiry_date = documents[e].expiry_date /\ d <= e

RECURSIVE OrderByExpiry(_)
OrderByExpiry(ids) ==
    IF ids = {} THEN <<>>
    ELSE LET d == FirstByExpiry(ids)
         IN <<Document(d)>> \o OrderByExpiry(ids \ {d})

\* DatabaseManager.get_documents(): SELECT * FROM documents ORDER BY expiry_date
get_documents == OrderByExpiry(DOMAIN documents)

\* DatabaseManager.get_people()
get_people == people

-----------------------------------------------------------------------------
(* integrations/pushover.py and integrations/caldav_client.py.  A send that  *)
(* reaches the transport succeeds or fails as the transport does (ok).      *)

\* the texts a required field is given: whitespace only, or a credential
FieldTexts == {" ", "k"}

\* the user key and the API token the Pushover form is given
PushoverForms == {<<"k", "k">>, <<" ", "k">>, <<"k", " ">>}

\* str.strip() of a field's text
strip(s) == IF s \in {"", " "} THEN "" ELSE s

\* the default of PushoverClient._get_config, its required fields
PushoverDefault == PyDict([enabled |-> FALSE, user_key |-> "", api_token |-> ""])

\* PushoverClient._get_config
Pushover_get_config(store) == get_setting(store, "pushover", PushoverDefault).v

\* PushoverClient._check_configuration
Pushover_check_configuration(store) ==
    LET config == Pushover_get_config(store)
    IN /\ config.enabled
       /\ strip(config.user_key) # ""
       /\ strip(config.api_token) # ""

\* the default of CalDAVClient._get_config, its required fields
CalDAVDefault ==
    PyDict([enabled |-> FALSE, caldav_url |-> "", username |-> "", password |-> ""])

\* CalDAVClient._get_config
CalDAV_get_config(store) == get_setting(store, "caldav", CalDAVDefault).v

\* CalDAVClient._check_configuration
CalDAV_check_configuration(store) ==
    LET config == CalDAV_get_config(store)
    IN /\ config.enabled
       /\ strip(config.caldav_url) # ""
       /\ strip(config.username) # ""
       /\ strip(config.password) # ""

\* CalDAVClient.__init__: enabled, and a calendar when _initialize_client
\* reached the server (initialized)
CalDAV_available(store, initialized) == CalDAV_check_configuration(store) /\ initialized

\* a store in which both channels are completely configured
ConfiguredStore ==
    set_setting(set_setting(<<>>, "pushover",
                            PyDict([enabled |-> TRUE, user_key |-> "k", api_token |-> "k"])),
                "caldav",
                PyDict([enabled |-> TRUE, caldav_url |-> "k", username |-> "k",
                        password |-> "k"]))

send_document_expiry_notification(ok) == pushover_enabled /\ ok

send_family_summary(ok) == pushover_enabled /\ ok

create_expiry_warning(ok) == caldav_enabled /\ ok

\* mutant: the reminder is saved whatever its date
create_renewal_reminder_anyDate(doc, ok) ==
    IF ~caldav_enabled THEN FALSE
    ELSE ok

\* nothing is saved when expiry_date - 180 days is before today
create_renewal_reminder(doc, ok) ==
    IF ~caldav_enabled THEN FALSE
    ELSE IF doc.expiry_date - 180 < today THEN FALSE
    ELSE ok

PushCall(op, id, ret) == [ch |-> "pushover", op |-> op, doc |-> id, ret |-> ret]
CalCall(op, id, ret) == [ch |-> "caldav", op |-> op, doc |-> id, ret |-> ret]

-----------------------------------------------------------------------------
(* utils/notification_scheduler.py *)

DefaultSchedule == <<180, 90, 30, 14, 7, 1>>

\* str(document_id), the key of a document in notification_history
DocKey(document_id) == ToString(document_id)

notification_history(store) == get_setting(store, "notification_history", PyDict(<<>>)).v

\* {} when the document has no record
_get_last_notification(store, document_id) ==
    LET notifications == notification_history(store)
    IN IF DocKey(document_id) \in DOMAIN notifications
       THEN notifications[DocKey(document_id)]
       ELSE <<>>

\* lines 164-167: notifications[str(document_id)] = {...}
RecordInto(notifications, document_id, days_left) ==
    LET key == DocKey(document_id)
        rec == [days_left |-> days_left, timestamp |-> now]
    IN [k \in DOMAIN notifications \cup {key} |->
           IF k = key THEN rec ELSE notifications[k]]

\* the whole history is read (line 162), changed and written back (line 169)
_record_notification_sent(store, document_id, days_left) ==
    set_setting(store, "notification_history",
                PyDict(RecordInto(notification_history(store), document_id, days_left)))

\* (datetime.now() - last_sent).days
timedelta_days(hours) == hours \div 24

\* mutant: a threshold of 7 days or less is not held back for a day
_should_send_notification_noRateLimit(store, document_id, days_left) ==
    LET schedule == get_setting(store, "notification_schedule", PyList(DefaultSchedule)).v
        last_notification == _get_last_notification(store, document_id)
    IN IF ~(\E i \in 1..Len(schedule) : schedule[i] = days_left) THEN FALSE
       ELSE IF DOMAIN last_notification = {} THEN TRUE
       ELSE IF last_notification.days_left = days_left THEN FALSE
       ELSE TRUE

\* mutant: the record's threshold is not compared with days_left
_should_send_notification_noSameThreshold(store, document_id, days_left) ==
    LET schedule == get_setting(store, "notification_schedule", PyList(DefaultSchedule)).v
        last_notification == _get_last_notification(store, document_id)
    IN IF ~(\E i \in 1..Len(schedule) : schedule[i] = days_left) THEN FALSE
       ELSE IF DOMAIN last_notification = {} THEN TRUE
       ELSE IF days_left <= 7 /\ timedelta_days(now - last_notification.timestamp) < 1
            THEN FALSE
       ELSE TRUE

\* mutant: a catch-up rule, due once days_left has come down to an offset
_should_send_notification_catchUp(store, document_id, days_left) ==
    LET schedule == get_setting(store, "notification_schedule", PyList(DefaultSchedule)).v
        last_notification == _get_last_notification(store, document_id)
    IN IF ~(\E i \in 1..Len(schedule) : days_left <= schedule[i]) THEN FALSE
       ELSE IF DOMAIN last_notification = {} THEN TRUE
       ELSE IF last_notification.days_left = days_left THEN FALSE
       ELSE IF days_left <= 7 /\ timedelta_days(now - last_notification.timestamp) < 1
            THEN FALSE
       ELSE TRUE

_should_send_notification(store, document_id, days_left) ==
    LET schedule == get_setting(store, "notification_schedule", PyList(DefaultSchedule)).v
        last_notification == _get_last_notification(store, document_id)
    IN IF ~(\E i \in 1..Len(schedule) : schedule[i] = days_left) THEN FALSE
       ELSE IF DOMAIN last_notification = {} THEN TRUE
       ELSE IF last_notification.days_left = days_left THEN FALSE
       ELSE IF days_left <= 7 /\ timedelta_days(now - last_notification.timestamp) < 1
            THEN FALSE
       ELSE TRUE

\* mutant: the day of the last summary is not looked at
_should_send_daily_summary_anyTime(store) ==
    IF ~truthy(get_setting(store, "daily_summary_enabled", PyBool(TRUE))) THEN FALSE
    ELSE IF hour # 8 THEN FALSE
    ELSE TRUE

_should_send_daily_summary(store) ==
    IF last_daily_check = <<today>> THEN FALSE
    ELSE IF ~truthy(get_setting(store, "daily_summary_enabled", PyBool(TRUE))) THEN FALSE
    ELSE IF hour # 8 THEN FALSE
    ELSE TRUE

-----------------------------------------------------------------------------
(* One evaluation.  acc carries the settings store as written so far, the    *)
(* channel calls made so far and the three counters.  pushOK, calOK and      *)
(* sumOK say what the transports answer to a send they are given.            *)

NoResult == [success |-> TRUE, notifications_sent |-> 0,
             urgent_count |-> 0, warning_count |-> 0]

StartAcc == [store |-> settings, calls |-> <<>>, notifications_sent |-> 0,
             urgent_count |-> 0, warning_count |-> 0]

\* mutant: yellow documents are not counted as warnings
CountUrgency_orangeOnly(acc, status_color) ==
    [acc EXCEPT !.urgent_count = IF status_color = "red" THEN @ + 1 ELSE @,
                !.warning_count = IF status_color = "orange" THEN @ + 1 ELSE @]

\* lines 86-90 and 205-208: count documents by urgency
CountUrgency(acc, status_color) ==
    [acc EXCEPT !.urgent_count = IF status_color = "red" THEN @ + 1 ELSE @,
                !.warning_count = IF status_color \in {"orange", "yellow"} THEN @ + 1 ELSE @]

\* lines 94-97 and 212-213: the push call and its count
PushExpiry(acc, doc, ok) ==
    LET ret == send_document_expiry_notification(ok)
    IN [acc EXCEPT !.calls = Append(@, PushCall("send_document_expiry_notification", doc.id, ret)),
                   !.notifications_sent = IF ret THEN @ + 1 ELSE @]

\* mutant: the calendar is updated only after a push that succeeded
TickCalendar_afterPushOnly(acc, doc, days_left, ok) ==
    IF ~acc.calls[Len(acc.calls)].ret THEN acc
    ELSE IF days_left <= 30
    THEN [acc EXCEPT !.calls = Append(@, CalCall("create_expiry_warning", doc.id,
                                                  create_expiry_warning(ok)))]
    ELSE IF days_left <= 180
    THEN [acc EXCEPT !.calls = Append(@, CalCall("create_renewal_reminder", doc.id,
                                                  create_renewal_reminder(doc, ok)))]
    ELSE acc

\* mutant: the urgent event stops short of the 30th day
TickCalendar_renewalAt30(acc, doc, days_left, ok) ==
    IF days_left < 30
    THEN [acc EXCEPT !.calls = Append(@, CalCall("create_expiry_warning", doc.id,
                                                  create_expiry_warning(ok)))]
    ELSE IF days_left <= 180
    THEN [acc EXCEPT !.calls = Append(@, CalCall("create_renewal_reminder", doc.id,
                                                  create_renewal_reminder(doc, ok)))]
    ELSE acc

\* lines 99-103: the calendar action of a scheduled tick
TickCalendar(acc, doc, days_left, ok) ==
    IF days_left <= 30
    THEN [acc EXCEPT !.calls = Append(@, CalCall("create_expiry_warning", doc.id,
                                                  create_expiry_warning(ok)))]
    ELSE IF days_left <= 180
    THEN [acc EXCEPT !.calls = Append(@, CalCall("create_renewal_reminder", doc.id,
                                                  create_renewal_reminder(doc, ok)))]
    ELSE acc

\* lines 105-106: the record of a scheduled tick
TickRecord(acc, doc, days_left) ==
    [acc EXCEPT !.store = _record_notification_sent(@, doc.id, days_left)]

\* lines 78-106: the loop body of _check_notifications
TickDocument(acc, doc, pushOK, calOK) ==
    IF doc.holder_id \notin get_people THEN acc
    ELSE LET days_left == days_until_expiry(doc.expiry_date, today)
             status_color == get_expiry_status(doc.expiry_date, today)[1]
             counted == CountUrgency(acc, status_color)
         IN IF _should_send_notification(acc.store, doc.id, days_left)
            THEN TickRecord(
                     TickCalendar(PushExpiry(counted, doc, pushOK[doc.id]),
                                  doc, days_left, calOK),
                     doc, days_left)
            ELSE counted

\* mutant: the loop ends at the first document without a holder
RECURSIVE TickLoop_untilUnresolved(_, _, _, _)
TickLoop_untilUnresolved(acc, docs, pushOK, calOK) ==
    IF docs = <<>> THEN acc
    ELSE IF Head(docs).holder_id \notin get_people THEN acc
    ELSE TickLoop_untilUnresolved(TickDocument(acc, Head(docs), pushOK, calOK),
                                  Tail(docs), pushOK, calOK)

RECURSIVE TickLoop(_, _, _, _)
TickLoop(acc, docs, pushOK, calOK) ==
    IF docs = <<>> THEN acc
    ELSE TickLoop(TickDocument(acc, Head(docs), pushOK, calOK), Tail(docs), pushOK, calOK)

\* lines 108-112: the daily summary of a scheduled tick
TickSummary(acc, sumOK) ==
    IF _should_send_daily_summary(acc.store)
    THEN [acc EXCEPT !.calls = Append(@, PushCall("send_family_summary", 0,
                                                   send_family_summary(sumOK)))]
    ELSE acc

\* mutant: a calendar event that was saved counts as a notification sent
CheckNowCalendar_counted(acc, doc, days_left, ok) ==
    LET ret == IF days_left <= 7 THEN create_expiry_warning(ok)
               ELSE create_renewal_reminder(doc, ok)
        op == IF days_left <= 7 THEN "create_expiry_warning" ELSE "create_renewal_reminder"
    IN [acc EXCEPT !.calls = Append(@, CalCall(op, doc.id, ret)),
                   !.notifications_sent = IF ret THEN @ + 1 ELSE @]

\* lines 215-219: the calendar action of check_now
CheckNowCalendar(acc, doc, days_left, ok) ==
    IF days_left <= 7
    THEN [acc EXCEPT !.calls = Append(@, CalCall("create_expiry_warning", doc.id,
                                                  create_expiry_warning(ok)))]
    ELSE [acc EXCEPT !.calls = Append(@, CalCall("create_renewal_reminder", doc.id,
                                                  create_renewal_reminder(doc, ok)))]

\* mutant: the boundary day is left out
CheckNowDue_exclusive(days_left) == days_left < 30

\* line 211: check_now's due-ness
CheckNowDue(days_left) == days_left <= 30

\* mutant: check_now runs the loop body of the scheduled tick
CheckNowDocument_asTick(acc, doc, pushOK, calOK) == TickDocument(acc, doc, pushOK, calOK)

\* lines 197-219: the loop body of check_now
CheckNowDocument(acc, doc, pushOK, calOK) ==
    IF doc.holder_id \notin get_people THEN acc
    ELSE LET days_left == days_until_expiry(doc.expiry_date, today)
             status_color == get_expiry_status(doc.expiry_date, today)[1]
             counted == CountUrgency(acc, status_color)
         IN IF CheckNowDue(days_left)
            THEN CheckNowCalendar(PushExpiry(counted, doc, pushOK[doc.id]),
                                  doc, days_left, calOK)
            ELSE counted

RECURSIVE CheckNowLoop(_, _, _, _)
CheckNowLoop(acc, docs, pushOK, calOK) ==
    IF docs = <<>> THEN acc
    ELSE CheckNowLoop(CheckNowDocument(acc, Head(docs), pushOK, calOK),
                      Tail(docs), pushOK, calOK)

\* mutant: the summary is sent only when a notification went out
CheckNowSummary_whenSent(acc, sumOK) ==
    IF acc.notifications_sent = 0 THEN acc
    ELSE LET ret == send_family_summary(sumOK)
         IN [acc EXCEPT !.calls = Append(@, PushCall("send_family_summary", 0, ret)),
                        !.notifications_sent = IF ret THEN @ + 1 ELSE @]

\* lines 221-223: the summary of check_now
CheckNowSummary(acc, sumOK) ==
    LET ret == send_family_summary(sumOK)
    IN [acc EXCEPT !.calls = Append(@, PushCall("send_family_summary", 0, ret)),
                   !.notifications_sent = IF ret THEN @ + 1 ELSE @]

\* mutant: the people are not looked at
EmptyDataset_documentsOnly == get_documents = <<>>

\* lines 67-68 and 183-190: nothing to check
EmptyDataset == get_documents = <<>> \/ get_people = {}

ResultOf(acc) == [success |-> TRUE, notifications_sent |-> acc.notifications_sent,
                  urgent_count |-> acc.urgent_count, warning_count |-> acc.warning_count]

-----------------------------------------------------------------------------
(* The operations *)

NoPrev == [op |-> "none", calls |-> <<>>, result |-> NoResult]

\* an operation that makes no channel call, and what it logged
Log(op) ==
    /\ evaluated' = evaluated
    /\ lastOp' = op
    /\ calls' = <<>>
    /\ result' = NoResult
    /\ preHistory' = <<>>
    /\ prev' = NoPrev

ClearLog == Log("none")

\* line 25: self.check_interval, seconds
check_interval == 3600

\* line 57: the sleep after a pass that raised, seconds
retry_sleep == 60

\* line 47: self.thread.join(timeout=5)
join_timeout == 5

NoCounts == [notifications_sent |-> 0, urgent_count |-> 0, warning_count |-> 0]

\* a thread running _run_scheduler, as created at line 36.  pc is where it is:
\* "ready" at the loop test, "checking" inside _check_notifications, "record"
\* between the read and the write of _record_notification_sent, "sleeping",
\* "exited"; sleep is the length of its sleep, or of its last one.  todo, lookup, counts, history and pending are the locals of the
\* pass: documents left, person_lookup, the three counters, the history read
\* at line 162 and the document it is read for.  stopped: stop() was called
\* while this was self.thread; resumed: it began a pass after that.
NewWorker == [pc |-> "ready", sleep |-> 0, todo |-> <<>>, lookup |-> {},
              counts |-> NoCounts, history |-> <<>>, pending |-> <<>>,
              stopped |-> FALSE, resumed |-> FALSE]

\* the pass is over and the thread sleeps
Asleep(w, seconds) ==
    [w EXCEPT !.pc = "sleeping", !.sleep = seconds, !.todo = <<>>, !.lookup = {},
              !.counts = NoCounts, !.history = <<>>, !.pending = <<>>]

\* self.thread: the index of the thread created last, 0 for None
thread == Len(workers)

\* a thread that a join of join_timeout seconds does not see end: one in a
\* sleep longer than that or inside a pass
Outlasts(w) ==
    \/ w.pc = "sleeping" /\ w.sleep > join_timeout
    \/ w.pc \in {"checking", "record"}

\* line 47: the thread as stop() leaves it
Joined(w) ==
    IF w.pc = "exited" \/ Outlasts(w)
    THEN [w EXCEPT !.stopped = TRUE]
    ELSE [w EXCEPT !.pc = "exited", !.stopped = TRUE]

\* the scheduler as constructed (lines 19-26) at instant t over the settings
\* in store: the two clients compute enabled as they are constructed
InitWith(t, store, initialized) ==
    /\ now = t
    /\ people = {}
    /\ documents = <<>>
    /\ settings = store
    /\ running = FALSE
    /\ last_daily_check = <<>>
    /\ workers = <<>>
    /\ pushover_enabled = Pushover_check_configuration(store)
    /\ caldav_enabled = CalDAV_available(store, initialized)
    /\ evaluated = <<>>
    /\ lastOp = "none"
    /\ calls = <<>>
    /\ result = NoResult
    /\ preHistory = <<>>
    /\ prev = NoPrev

\* the scheduler as constructed at instant t with both channels configured
InitAt(t) == InitWith(t, ConfiguredStore, TRUE)

Init == InitAt(8)

\* mutant: a second start() replaces the thread
start_restart ==
    /\ Len(workers) < MaxWorkers
    /\ running' = TRUE
    /\ workers' = Append(workers, NewWorker)
    /\ Log(IF running THEN "start: already running" ELSE "none")
    /\ UNCHANGED <<now, people, documents, settings, last_daily_check,
                   pushover_enabled, caldav_enabled>>

\* NotificationScheduler.start
start ==
    IF running
    THEN /\ Log("start: already running")
         /\ UNCHANGED <<now, people, documents, settings, running, last_daily_check,
                        pushover_enabled, caldav_enabled, workers>>
    ELSE /\ Len(workers) < MaxWorkers
         /\ running' = TRUE
         /\ workers' = Append(workers, NewWorker)
         /\ ClearLog
         /\ UNCHANGED <<now, people, documents, settings, last_daily_check,
                        pushover_enabled, caldav_enabled>>

\* NotificationScheduler.stop
stop ==
    /\ running
    /\ running' = FALSE
    /\ workers' = IF thread = 0 THEN workers
                  ELSE [workers EXCEPT ![thread] = Joined(@)]
    /\ ClearLog
    /\ UNCHANGED <<now, people, documents, settings, last_daily_check,
                   pushover_enabled, caldav_enabled>>

\* what the transports answer during one evaluation: within one evaluation a
\* transport answers every send it is given alike
PushOutcomes == {[d \in DOMAIN documents |-> b] : b \in BOOLEAN}

\* _check_notifications as a whole
_check_notifications(pushOK, calOK, sumOK) ==
    IF EmptyDataset THEN StartAcc
    ELSE TickSummary(TickLoop(StartAcc, get_documents, pushOK, calOK), sumOK)

\* line 112: the summary was attempted
SummaryAttempted(acc) ==
    \E i \in 1..Len(acc.calls) : acc.calls[i].op = "send_family_summary"

\* one pass of a thread's loop (lines 51-54) that nothing interleaves with: the
\* test, _check_notifications, and into the sleep
Tick ==
    /\ running
    /\ \E w \in DOMAIN workers :
          /\ workers[w].pc \in {"ready", "sleeping"}
          /\ workers' = [workers EXCEPT ![w] =
                            [Asleep(@, check_interval) EXCEPT !.resumed = @ \/ workers[w].stopped]]
    /\ \E pushOK \in PushOutcomes, calOK \in BOOLEAN, sumOK \in BOOLEAN :
          \E acc \in {_check_notifications(pushOK, calOK, sumOK)} :
             /\ settings' = acc.store
             /\ calls' = acc.calls
             /\ result' = ResultOf(acc)
             /\ last_daily_check' = IF SummaryAttempted(acc)
                                    THEN <<today>> ELSE last_daily_check
    /\ lastOp' = "tick"
    /\ preHistory' = notification_history(settings)
    /\ prev' = NoPrev
    /\ UNCHANGED <<now, people, documents, running, pushover_enabled, caldav_enabled,
                   evaluated>>

\* check_now as a whole
CheckNowResult(pushOK, calOK, sumOK) ==
    IF EmptyDataset THEN StartAcc
    ELSE CheckNowSummary(CheckNowLoop(StartAcc, get_documents, pushOK, calOK), sumOK)

\* NotificationScheduler.check_now, lines 176-231
CheckNowStep ==
    /\ \E pushOK \in PushOutcomes, calOK \in BOOLEAN, sumOK \in BOOLEAN :
          \E acc \in {CheckNowResult(pushOK, calOK, sumOK)} :
             /\ settings' = acc.store
             /\ calls' = acc.calls
             /\ result' = ResultOf(acc)
    /\ lastOp' = "check_now"
    /\ preHistory' = notification_history(settings)
    /\ UNCHANGED <<now, people, documents, running, last_daily_check,
                   pushover_enabled, caldav_enabled, evaluated, workers>>

\* NotificationScheduler.check_now
check_now == CheckNowStep /\ prev' = NoPrev

\* NotificationScheduler.check_now, the calls of the evaluation before it kept
check_now_again ==
    CheckNowStep /\ prev' = [op |-> lastOp, calls |-> calls, result |-> result]

\* DatabaseManager.add_person
add_person ==
    /\ Cardinality(people) < MaxPeople
    /\ people' = people \cup {Cardinality(people) + 1}
    /\ ClearLog
    /\ UNCHANGED <<now, documents, settings, running, last_daily_check,
                   pushover_enabled, caldav_enabled, workers>>

\* DatabaseManager.add_document with a holder_id among holders: the row is
\* inserted whether or not people has that id (no foreign key is enforced)
AddDocument(holders, expiries) ==
    /\ Cardinality(DOMAIN documents) < MaxDocs
    /\ \E holder_id \in holders, expiry_date \in expiries :
          documents' = Append(documents, [holder_id |-> holder_id,
                                          expiry_date |-> expiry_date])
    /\ ClearLog
    /\ UNCHANGED <<now, people, settings, running, last_daily_check,
                   pushover_enabled, caldav_enabled, workers>>

\* DatabaseManager.add_document for a holder picked on the documents page
add_document == AddDocument(PersonIds, ExpiryChoices)

\* DatabaseManager.add_document for any holder_id, far expiry dates included
add_document_any_holder == AddDocument(HolderIds, ExpiryChoices \cup LaterExpiryChoices)

\* DatabaseManager.update_document, with a new expiry date
update_document ==
    /\ \E id \in DOMAIN documents, expiry_date \in ExpiryChoices :
          /\ expiry_date > documents[id].expiry_date
          /\ documents' = [documents EXCEPT ![id].expiry_date = expiry_date]
    /\ ClearLog
    /\ UNCHANGED <<now, people, settings, running, last_daily_check,
                   pushover_enabled, caldav_enabled, workers>>

\* the settings page storing another notification schedule
SetSchedule ==
    /\ \E new_schedule \in CustomSchedules :
          /\ new_schedule # get_setting(settings, "notification_schedule",
                                        PyList(DefaultSchedule)).v
          /\ settings' = set_setting(settings, "notification_schedule", PyList(new_schedule))
    /\ ClearLog
    /\ UNCHANGED <<now, people, documents, running, last_daily_check,
                   pushover_enabled, caldav_enabled, workers>>

\* time passes
Advance ==
    /\ \E t \in Instants : t > now /\ now' = t
    /\ ClearLog
    /\ UNCHANGED <<people, documents, settings, running, last_daily_check,
                   pushover_enabled, caldav_enabled, workers>>

Next ==
    \/ start
    \/ Tick
    \/ check_now
    \/ add_person
    \/ add_document
    \/ update_document
    \/ SetSchedule
    \/ Advance

Spec == Init /\ [][Next]_vars

\* check_now called repeatedly, each call compared with the one before it
NextRepeat ==
    \/ start
    \/ Tick
    \/ check_now_again
    \/ add_person
    \/ add_document

InitRepeat == InitAt(32)

SpecRepeat == InitRepeat /\ [][NextRepeat]_vars

\* the settings page stores the state of the daily-summary checkbox
\* (main.py lines 534-535)
SetDailySummary ==
    /\ \E daily_summary \in BOOLEAN :
          settings' = set_setting(settings, "daily_summary_enabled", PyBool(daily_summary))
    /\ ClearLog
    /\ UNCHANGED <<now, people, documents, running, last_daily_check,
                   pushover_enabled, caldav_enabled, workers>>

\* the scheduled passes over the days, with the daily-summary setting
NextSummary ==
    \/ start
    \/ Tick
    \/ add_person
    \/ add_document
    \/ SetDailySummary
    \/ Advance

SpecSummary == Init /\ [][NextSummary]_vars

\* the settings page storing the Pushover configuration (main.py lines
\* 411-451): the form when the box is ticked, enabled false when it is not
SetPushover ==
    /\ \E checkbox \in BOOLEAN, form \in PushoverForms :
          LET pushover_config == Pushover_get_config(settings)
              new_pushover_config == [enabled |-> TRUE, user_key |-> form[1],
                                      api_token |-> form[2]]
          IN IF checkbox
             THEN /\ new_pushover_config # pushover_config
                  /\ settings' = set_setting(settings, "pushover",
                                             PyDict(new_pushover_config))
             ELSE /\ pushover_config.enabled
                  /\ settings' = set_setting(settings, "pushover",
                                             PyDict([pushover_config EXCEPT
                                                        !.enabled = FALSE]))
    /\ ClearLog
    /\ UNCHANGED <<now, people, documents, running, last_daily_check,
                   pushover_enabled, caldav_enabled, workers>>

\* the settings page storing the CalDAV configuration (main.py lines 456-526),
\* the form given the same URL and user name each time
SetCalDAV ==
    /\ \E checkbox \in BOOLEAN, password \in FieldTexts :
          LET caldav_config == CalDAV_get_config(settings)
              new_caldav_config == [enabled |-> TRUE, caldav_url |-> "k",
                                    username |-> "k", password |-> password]
          IN IF checkbox
             THEN /\ new_caldav_config # caldav_config
                  /\ settings' = set_setting(settings, "caldav", PyDict(new_caldav_config))
             ELSE /\ caldav_config.enabled
                  /\ settings' = set_setting(settings, "caldav",
                                             PyDict([caldav_config EXCEPT
                                                        !.enabled = FALSE]))
    /\ ClearLog
    /\ UNCHANGED <<now, people, documents, running, last_daily_check,
                   pushover_enabled, caldav_enabled, workers>>

\* evaluations while the settings page changes the channels' configuration
NextConfig ==
    \/ start
    \/ Tick
    \/ check_now
    \/ add_person
    \/ add_document
    \/ SetPushover
    \/ SetCalDAV

\* constructed over an empty store or a configured one, the calendar server
\* reached or not
InitConfig ==
    \E store \in {<<>>, ConfiguredStore}, initialized \in BOOLEAN :
        InitWith(32, store, initialized)

SpecConfig == InitConfig /\ [][NextConfig]_vars

\* Optional[date]: None is <<>>, a date d is <<d>>
None == <<>>

\* get_expiry_status of an expiry date that may be missing (lines 10-11)
get_expiry_status_optional(expiry_date, on) ==
    IF expiry_date = None THEN <<"gray", "NoExpiryDate">>
    ELSE get_expiry_status(expiry_date[1], on)

\* days_until_expiry of an expiry date that may be missing (lines 33-34)
days_until_expiry_optional(expiry_date, on) ==
    IF expiry_date = None THEN 0
    ELSE days_until_expiry(expiry_date[1], on)

\* the days date.today() returns: 1 January, 31 January, 1 February, 1 March
ReferenceDays == {0, 30, 31, 59}

\* how many days after the reference day a document expires
DayDifferences == {-1, 0, 5, 7, 8, 30, 31, 59, 89, 90, 92, 120, 122, 181, 184, 212}

\* one evaluation of date_utils and of what the scheduler's loops do with its
\* answers (lines 83-93 and 202-211), for a document without a record
Evaluation(expiry_date, on) ==
    LET days_left == days_until_expiry_optional(expiry_date, on)
        status == get_expiry_status_optional(expiry_date, on)
    IN [expiry_date |-> expiry_date, on |-> on, status |-> status,
        days_left |-> days_left,
        counts |-> ResultOf(CountUrgency(StartAcc, status[1])),
        tick_due |-> \E i \in 1..Len(DefaultSchedule) : DefaultSchedule[i] = days_left,
        check_now_due |-> CheckNowDue(days_left)]

\* the last two of a sequence
LastTwo(seq) == IF Len(seq) <= 2 THEN seq ELSE SubSeq(seq, Len(seq) - 1, Len(seq))

\* date_utils applied to an expiry date on a reference day
Classify ==
    /\ \E on \in ReferenceDays :
          \E expiry_date \in {None} \cup {<<on + n>> : n \in DayDifferences} :
             evaluated' = LastTwo(Append(evaluated, Evaluation(expiry_date, on)))
    /\ UNCHANGED <<now, people, documents, settings, running, last_daily_check,
                   workers, pushover_enabled, caldav_enabled, lastOp, calls, result,
                   preHistory, prev>>

NextClassify == Classify

SpecClassify == Init /\ [][NextClassify]_vars

\* evaluations over documents whose holder_id may match no person
NextHolders ==
    \/ start
    \/ Tick
    \/ check_now
    \/ add_person
    \/ add_document_any_holder

InitHolders == InitAt(32)

SpecHolders == InitHolders /\ [][NextHolders]_vars

-----------------------------------------------------------------------------
(* The threads of _run_scheduler step by step, so that a pass interleaves    *)
(* with the operations and with the pass of another thread.                 *)

\* the counters of the pass of thread w, as an accumulator over the store
WorkerAcc(w) ==
    [store |-> settings, calls |-> <<>>,
     notifications_sent |-> workers[w].counts.notifications_sent,
     urgent_count |-> workers[w].counts.urgent_count,
     warning_count |-> workers[w].counts.warning_count]

CountsOf(acc) ==
    [notifications_sent |-> acc.notifications_sent,
     urgent_count |-> acc.urgent_count, warning_count |-> acc.warning_count]

\* what a step of a pass logs
PassLog(cs) ==
    /\ evaluated' = evaluated
    /\ lastOp' = "pass"
    /\ calls' = cs
    /\ result' = NoResult
    /\ preHistory' = <<>>
    /\ prev' = NoPrev

\* time.sleep returns (lines 54 and 57)
WorkerWake(w) ==
    /\ workers[w].pc = "sleeping"
    /\ workers' = [workers EXCEPT ![w].pc = "ready"]
    /\ ClearLog
    /\ UNCHANGED <<now, people, documents, settings, running, last_daily_check,
                   pushover_enabled, caldav_enabled>>

\* line 51, and lines 64-68 of the pass it begins
WorkerEnter(w) ==
    /\ workers[w].pc = "ready"
    /\ workers' = [workers EXCEPT ![w] =
          IF ~running THEN [@ EXCEPT !.pc = "exited"]
          ELSE IF EmptyDataset
               THEN [Asleep(@, check_interval) EXCEPT !.resumed = @ \/ workers[w].stopped]
               ELSE [@ EXCEPT !.pc = "checking", !.todo = get_documents,
                              !.lookup = get_people, !.counts = NoCounts,
                              !.resumed = @ \/ workers[w].stopped]]
    /\ ClearLog
    /\ UNCHANGED <<now, people, documents, settings, running, last_daily_check,
                   pushover_enabled, caldav_enabled>>

\* lines 78-103 for the next document, and the read of line 162 when it is due
WorkerDocument(w) ==
    /\ workers[w].pc = "checking"
    /\ workers[w].todo # <<>>
    /\ LET doc == Head(workers[w].todo)
           days_left == days_until_expiry(doc.expiry_date, today)
           status_color == get_expiry_status(doc.expiry_date, today)[1]
           counted == CountUrgency(WorkerAcc(w), status_color)
       IN IF doc.holder_id \notin workers[w].lookup
          THEN /\ workers' = [workers EXCEPT ![w].todo = Tail(@)]
               /\ PassLog(<<>>)
          ELSE IF _should_send_notification(settings, doc.id, days_left)
          THEN \E pushOK \in PushOutcomes, calOK \in BOOLEAN :
                  \E acc \in {TickCalendar(PushExpiry(counted, doc, pushOK[doc.id]),
                                           doc, days_left, calOK)} :
                     /\ workers' = [workers EXCEPT
                            ![w].todo = Tail(@), ![w].counts = CountsOf(acc),
                            ![w].pc = "record",
                            ![w].history = notification_history(settings),
                            ![w].pending = [id |-> doc.id, days_left |-> days_left]]
                     /\ PassLog(acc.calls)
          ELSE /\ workers' = [workers EXCEPT ![w].todo = Tail(@),
                                             ![w].counts = CountsOf(counted)]
               /\ PassLog(<<>>)
    /\ UNCHANGED <<now, people, documents, settings, running, last_daily_check,
                   pushover_enabled, caldav_enabled>>

\* lines 164-169: the history read at line 162 is written back with the record
WorkerRecord(w) ==
    /\ workers[w].pc = "record"
    /\ settings' = set_setting(settings, "notification_history",
                               PyDict(RecordInto(workers[w].history, workers[w].pending.id,
                                                 workers[w].pending.days_left)))
    /\ workers' = [workers EXCEPT ![w].pc = "checking", ![w].history = <<>>,
                                  ![w].pending = <<>>]
    /\ PassLog(<<>>)
    /\ UNCHANGED <<now, people, documents, running, last_daily_check,
                   pushover_enabled, caldav_enabled>>

\* lines 108-112 and into the sleep of line 54
WorkerSummary(w) ==
    /\ workers[w].pc = "checking"
    /\ workers[w].todo = <<>>
    /\ \E sumOK \in BOOLEAN :
          \E acc \in {TickSummary(WorkerAcc(w), sumOK)} :
             /\ last_daily_check' = IF SummaryAttempted(acc)
                                    THEN <<today>> ELSE last_daily_check
             /\ PassLog(acc.calls)
    /\ workers' = [workers EXCEPT ![w] = Asleep(@, check_interval)]
    /\ UNCHANGED <<now, people, documents, settings, running,
                   pushover_enabled, caldav_enabled>>

\* mutant: the exception ends the thread
WorkerFault_propagates(w) ==
    /\ workers[w].pc \in {"checking", "record"}
    /\ workers' = [workers EXCEPT ![w].pc = "exited"]
    /\ Log("fault")
    /\ UNCHANGED <<now, people, documents, settings, running, last_daily_check,
                   pushover_enabled, caldav_enabled>>

\* lines 55-57: an exception raised inside the pass is caught and logged
WorkerFault(w) ==
    /\ workers[w].pc \in {"checking", "record"}
    /\ workers' = [workers EXCEPT ![w] = Asleep(@, retry_sleep)]
    /\ Log("fault")
    /\ UNCHANGED <<now, people, documents, settings, running, last_daily_check,
                   pushover_enabled, caldav_enabled>>

NextThreads ==
    \/ start
    \/ stop
    \/ add_person
    \/ add_document
    \/ \E w \in DOMAIN workers : WorkerWake(w)
    \/ \E w \in DOMAIN workers : WorkerEnter(w)
    \/ \E w \in DOMAIN workers : WorkerDocument(w)
    \/ \E w \in DOMAIN workers : WorkerRecord(w)
    \/ \E w \in DOMAIN workers : WorkerSummary(w)
    \/ \E w \in DOMAIN workers : WorkerFault(w)

InitThreads == InitAt(32)

SpecThreads == InitThreads /\ [][NextThreads]_vars

-----------------------------------------------------------------------------
(* What the last evaluation did, read from its log.  No operation other     *)
(* than an evaluation leaves a log, so now, documents, people and the       *)
(* schedule are what the evaluation saw.                                    *)

History == notification_history(settings)

DaysLeft(d) == days_until_expiry(documents[d].expiry_date, today)

Schedule == get_setting(settings, "notification_schedule", PyList(DefaultSchedule)).v

InSchedule(n) == \E i \in 1..Len(Schedule) : Schedule[i] = n

Resolvable(d) == documents[d].holder_id \in people

NoDataset == DOMAIN documents = {} \/ people = {}

PushCalls(d) ==
    {i \in 1..Len(calls) : calls[i].op = "send_document_expiry_notification" /\ calls[i].doc = d}

CalendarCalls(d) == {i \in 1..Len(calls) : calls[i].ch = "caldav" /\ calls[i].doc = d}

SummaryCalls == {i \in 1..Len(calls) : calls[i].op = "send_family_summary"}

HadRecord(d) == DocKey(d) \in DOMAIN preHistory

OldRecord(d) == preHistory[DocKey(d)]

RecordUnchanged(d) ==
    IF HadRecord(d)
    THEN DocKey(d) \in DOMAIN History /\ History[DocKey(d)] = OldRecord(d)
    ELSE DocKey(d) \notin DOMAIN History

\* due in a scheduled tick: an exact schedule offset, not yet notified at this
\* offset, and not notified within the last day when 7 days or less are left
DueInTick(d) ==
    /\ ~NoDataset
    /\ Resolvable(d)
    /\ InSchedule(DaysLeft(d))
    /\ HadRecord(d) =>
          /\ OldRecord(d).days_left # DaysLeft(d)
          /\ ~(DaysLeft(d) <= 7 /\ now - OldRecord(d).timestamp < 24)

\* due in check_now
DueInCheckNow(d) == ~NoDataset /\ Resolvable(d) /\ DaysLeft(d) <= 30

\* the push notification of document d went out in the calls cs
Notified(cs, d) ==
    \E i \in 1..Len(cs) : /\ cs[i].op = "send_document_expiry_notification"
                           /\ cs[i].doc = d
                           /\ cs[i].ret

\* every push send of the calls cs succeeded
PushSucceeded(cs) == \A i \in 1..Len(cs) : cs[i].ch = "pushover" => cs[i].ret

-----------------------------------------------------------------------------
(* The claims *)

\* C1: a scheduled tick makes no push call and no calendar call for a document
\* whose days_left is a schedule offset and whose record has that same
\* days_left and is less than 24 hours old, and leaves its record unchanged.
C1_Dedup ==
    lastOp = "tick" =>
        \A d \in DOMAIN documents :
            ( /\ InSchedule(DaysLeft(d))
              /\ HadRecord(d)
              /\ OldRecord(d).days_left = DaysLeft(d)
              /\ now - OldRecord(d).timestamp < 24 )
            => PushCalls(d) = {} /\ CalendarCalls(d) = {} /\ RecordUnchanged(d)

C1_Witness ==
    /\ lastOp = "tick"
    /\ \E d \in DOMAIN documents :
          /\ Resolvable(d)
          /\ InSchedule(DaysLeft(d))
          /\ DaysLeft(d) > 7
          /\ HadRecord(d)
          /\ OldRecord(d).days_left = DaysLeft(d)
          /\ now - OldRecord(d).timestamp < 24
          /\ now - OldRecord(d).timestamp > 0
          /\ PushCalls(d) = {}

\* C2 (as claimed): a scheduled tick calls the push channel again for a document
\* whose days_left is a schedule offset of 7 or less and whose record has that
\* same days_left and is more than 24 hours old.
C2_RedispatchAfter24h ==
    lastOp = "tick" =>
        \A d \in DOMAIN documents :
            ( /\ ~NoDataset
              /\ Resolvable(d)
              /\ InSchedule(DaysLeft(d))
              /\ DaysLeft(d) <= 7
              /\ HadRecord(d)
              /\ OldRecord(d).days_left = DaysLeft(d)
              /\ now - OldRecord(d).timestamp > 24 )
            => PushCalls(d) # {}

\* C3 (as claimed): when the push call and the calendar call of a scheduled tick
\* for a document both return false, the document's record is left unchanged.
C3_RecordOnlyOnSuccess ==
    lastOp = "tick" =>
        \A d \in DOMAIN documents :
            ( /\ PushCalls(d) # {}
              /\ \A i \in PushCalls(d) \cup CalendarCalls(d) : ~calls[i].ret )
            => RecordUnchanged(d)

\* C4: for every document found due, the push call and the applicable calendar
\* call are each made exactly once in that evaluation, whatever the other
\* returned, in the scheduled tick and in check_now.
C4_ChannelIsolation ==
    /\ lastOp = "tick" =>
          \A d \in DOMAIN documents :
              DueInTick(d) =>
                  /\ Cardinality(PushCalls(d)) = 1
                  /\ Cardinality(CalendarCalls(d)) = IF DaysLeft(d) <= 180 THEN 1 ELSE 0
    /\ lastOp = "check_now" =>
          \A d \in DOMAIN documents :
              DueInCheckNow(d) =>
                  /\ Cardinality(PushCalls(d)) = 1
                  /\ Cardinality(CalendarCalls(d)) = 1

C4_Witness ==
    /\ lastOp = "tick"
    /\ \E d \in DOMAIN documents :
          /\ DueInTick(d)
          /\ \E i \in PushCalls(d) : ~calls[i].ret
          /\ \E i \in CalendarCalls(d) : calls[i].ret

\* C5: a scheduled tick makes a push or calendar call for a document, or writes
\* its record, only if the document's days_left is an element of the stored
\* schedule; a document that has expired is never dispatched under a schedule
\* of positive offsets.
C5_ExactMatch ==
    lastOp = "tick" =>
        \A d \in DOMAIN documents :
            (PushCalls(d) # {} \/ CalendarCalls(d) # {} \/ ~RecordUnchanged(d))
            => InSchedule(DaysLeft(d))

C5_Witness ==
    /\ lastOp = "tick"
    /\ \E d, e \in DOMAIN documents :
          /\ Resolvable(d)
          /\ DaysLeft(d) < 0
          /\ PushCalls(d) = {} /\ CalendarCalls(d) = {} /\ ~HadRecord(d)
          /\ PushCalls(e) # {}

\* C6: check_now attempts the push expiry notification exactly once for every
\* document with a resolvable holder and days_left <= 30, expired documents
\* included, and not at all when days_left > 30, whatever the history and
\* the schedule.
C6_CheckNowRelaxed ==
    lastOp = "check_now" =>
        \A d \in DOMAIN documents :
            Resolvable(d) =>
                Cardinality(PushCalls(d)) = IF DaysLeft(d) <= 30 THEN 1 ELSE 0

C6_Witness ==
    /\ lastOp = "check_now"
    /\ \E d, e \in DOMAIN documents :
          /\ Resolvable(d)
          /\ HadRecord(d)
          /\ OldRecord(d).days_left = DaysLeft(d)
          /\ Cardinality(PushCalls(d)) = 1
          /\ Resolvable(e)
          /\ DaysLeft(e) < 0
          /\ ~InSchedule(DaysLeft(e))
          /\ Cardinality(PushCalls(e)) = 1

\* C7 (as claimed): after check_now, a document it dispatched successfully has a
\* record holding its current days_left, and a document whose dispatch failed
\* has its record unchanged.
C7_CheckNowWritesHistory ==
    lastOp = "check_now" =>
        \A d \in DOMAIN documents :
            IF \E i \in PushCalls(d) \cup CalendarCalls(d) : calls[i].ret
            THEN /\ DocKey(d) \in DOMAIN History
                 /\ History[DocKey(d)].days_left = DaysLeft(d)
            ELSE RecordUnchanged(d)

\* C8 (as claimed): of two check_now calls in immediate succession with channels
\* that succeed, the second does not notify again a document that the first
\* notified (documents with more than 7 days left: the repeat carve-out
\* does not apply to them).
C8_SecondCallSkips ==
    ( /\ lastOp = "check_now"
      /\ prev.op = "check_now"
      /\ PushSucceeded(prev.calls)
      /\ PushSucceeded(calls) )
    => \A d \in DOMAIN documents :
           (DaysLeft(d) > 7 /\ Notified(prev.calls, d)) => ~Notified(calls, d)

\* C8 (amended): of two check_now calls in immediate succession with channels
\* that succeed, the second notifies again every document that the first
\* notified and returns the same notifications_sent.
C8_SecondCallRepeats ==
    ( /\ lastOp = "check_now"
      /\ prev.op = "check_now"
      /\ PushSucceeded(prev.calls)
      /\ PushSucceeded(calls) )
    => /\ \A d \in DOMAIN documents : Notified(prev.calls, d) => Notified(calls, d)
       /\ result.notifications_sent = prev.result.notifications_sent

C8_Witness ==
    /\ lastOp = "check_now"
    /\ prev.op = "check_now"
    /\ PushSucceeded(prev.calls)
    /\ PushSucceeded(calls)
    /\ \E d \in DOMAIN documents :
          /\ DaysLeft(d) > 7
          /\ HadRecord(d)
          /\ Notified(prev.calls, d)
          /\ Notified(calls, d)
    /\ result.notifications_sent >= 2

\* C9: with zero documents or zero people, check_now returns success with all
\* three counts zero and makes no channel call at all.
C9_EmptyDataset ==
    (lastOp = "check_now" /\ NoDataset) =>
        /\ result = [success |-> TRUE, notifications_sent |-> 0,
                     urgent_count |-> 0, warning_count |-> 0]
        /\ calls = <<>>

C9_Witness ==
    /\ lastOp = "check_now"
    /\ people = {}
    /\ \E d \in DOMAIN documents : DaysLeft(d) <= 30
    /\ calls = <<>>

\* C10 (as claimed): every check_now attempts exactly one family-summary send.
C10_AlwaysOneSummary ==
    lastOp = "check_now" => Cardinality(SummaryCalls) = 1

\* C10 (amended): check_now attempts exactly one family-summary send when there
\* is at least one document and one person, whether or not a document was
\* due, and none when there are no documents or no people.
C10_OneSummaryUnlessEmpty ==
    lastOp = "check_now" =>
        Cardinality(SummaryCalls) = IF NoDataset THEN 0 ELSE 1

C10_Witness ==
    /\ lastOp = "check_now"
    /\ ~NoDataset
    /\ \A d \in DOMAIN documents : Resolvable(d) /\ DaysLeft(d) > 30
    /\ \A i \in 1..Len(calls) : calls[i].op = "send_family_summary"
    /\ Cardinality(SummaryCalls) = 1

\* the documents for which some call of the last evaluation returned true
Dispatched == {d \in DOMAIN documents :
                  \E i \in PushCalls(d) \cup CalendarCalls(d) : calls[i].ret}

\* the push-channel sends of the last evaluation that returned true
PushSent == {i \in 1..Len(calls) : calls[i].ch = "pushover" /\ calls[i].ret}

\* C11 (as claimed): the notifications_sent that check_now returns reflects every
\* document that had a successful dispatch, one whose calendar call succeeded
\* while its push call failed included.
C11_CountsEveryDispatch ==
    lastOp = "check_now" => result.notifications_sent >= Cardinality(Dispatched)

\* C11 (amended): the notifications_sent that check_now returns is the number of
\* push-channel sends (expiry notifications and the family summary) that
\* returned true; a call that returned false and a calendar call, whatever
\* it returned, add nothing.
C11_CountsPushSent ==
    lastOp = "check_now" => result.notifications_sent = Cardinality(PushSent)

C11_Witness ==
    /\ lastOp = "check_now"
    /\ \E d \in DOMAIN documents :
          /\ \E i \in PushCalls(d) : ~calls[i].ret
          /\ \E i \in CalendarCalls(d) : calls[i].ret
    /\ \E i \in SummaryCalls : calls[i].ret
    /\ result.notifications_sent = 1

\* the calendar operations called for document d in the last evaluation, in order
CalendarOps(d) ==
    LET F[i \in 0..Len(calls)] ==
            IF i = 0 THEN <<>>
            ELSE IF calls[i].ch = "caldav" /\ calls[i].doc = d
                 THEN Append(F[i - 1], calls[i].op)
                 ELSE F[i - 1]
    IN F[Len(calls)]

\* C20: for every document due in a scheduled tick the calendar action is
\* create_expiry_warning when days_left <= 30, create_renewal_reminder when
\* 30 < days_left <= 180 and none above 180; a document at exactly 30 days
\* without a record gets one push attempt, the urgent event and a record
\* with days_left = 30.
C20_TickCalendarAction ==
    lastOp = "tick" =>
        \A d \in DOMAIN documents :
            DueInTick(d) =>
                /\ CalendarOps(d) = IF DaysLeft(d) <= 30 THEN <<"create_expiry_warning">>
                                    ELSE IF DaysLeft(d) <= 180
                                         THEN <<"create_renewal_reminder">>
                                         ELSE <<>>
                /\ (DaysLeft(d) = 30 /\ ~HadRecord(d)) =>
                       /\ Cardinality(PushCalls(d)) = 1
                       /\ DocKey(d) \in DOMAIN History
                       /\ History[DocKey(d)].days_left = 30

C20_Witness ==
    /\ lastOp = "tick"
    /\ \E d, e \in DOMAIN documents :
          /\ DueInTick(d) /\ DaysLeft(d) = 30 /\ ~HadRecord(d)
          /\ CalendarOps(d) = <<"create_expiry_warning">>
          /\ History[DocKey(d)].days_left = 30
          /\ DueInTick(e) /\ DaysLeft(e) = 180
          /\ CalendarOps(e) = <<"create_renewal_reminder">>

\* C12: start() on a scheduler that is running logs that it is and creates no
\* thread: running, self.thread, the threads and last_daily_check are as
\* they were (check_interval is assigned at construction only).
C12_StartIdempotent ==
    [][lastOp' = "start: already running" =>
          /\ running /\ running'
          /\ workers' = workers
          /\ thread' = thread
          /\ last_daily_check' = last_daily_check]_vars

C12_Witness ==
    /\ lastOp = "start: already running"
    /\ running
    /\ thread = 1
    /\ workers[1].pc = "sleeping"
    /\ last_daily_check = <<today>>

\* C13 (as claimed): a thread that was self.thread when stop() was called
\* begins no pass after that call: when its sleep or its pass ends it sees
\* the flag cleared and leaves the loop, whatever is called later.
C13_StoppedNeverResumes ==
    \A w \in DOMAIN workers : ~workers[w].resumed

\* the threads that are inside _check_notifications
InPass == {w \in DOMAIN workers : workers[w].pc \in {"checking", "record"}}

\* C14 (as claimed): after any sequence of start() and stop() calls at most one
\* thread is inside _check_notifications, so that two timer-driven passes
\* never run at the same time.
C14_NoOverlappingTicks ==
    Cardinality(InPass) <= 1

\* C15: an exception raised inside a pass never ends the thread: the thread goes
\* from inside a pass only on in the pass or into a sleep, the sleep after
\* an exception is retry_sleep, shorter than check_interval, and a thread
\* at the loop test while running stays true begins another pass.
C15_FaultKeepsWorker ==
    [][\A w \in DOMAIN workers :
          workers'[w] # workers[w] =>
             /\ workers[w].pc \in {"checking", "record"} =>
                   workers'[w].pc \in {"checking", "record", "sleeping"}
             /\ lastOp' = "fault" =>
                   /\ workers'[w].pc = "sleeping"
                   /\ workers'[w].sleep = retry_sleep
                   /\ retry_sleep < check_interval
             /\ (workers[w].pc = "ready" /\ running /\ running') =>
                   workers'[w].pc \in {"checking", "sleeping"}]_vars

C15_Witness ==
    /\ running
    /\ \E w \in DOMAIN workers :
          /\ workers[w].pc = "checking"
          /\ workers[w].sleep = retry_sleep
          /\ ~workers[w].stopped

\* C16 (as claimed): a history write touches only the entry of its own document,
\* so that no step of a pass or of check_now, however the passes interleave,
\* loses the record of another document.
C16_RecordsNeverLost ==
    [][\A k \in DOMAIN History : k \in DOMAIN notification_history(settings')]_vars

\* C17: a scheduled tick attempts a family summary only at hour 8 and only when
\* none was attempted that day, last_daily_check is that day from then on,
\* and nothing else changes last_daily_check: at most one attempt a day.
C17_OneSummaryPerDay ==
    [][/\ (lastOp' = "tick" /\ \E i \in 1..Len(calls') : calls'[i].op = "send_family_summary")
          => /\ hour = 8
             /\ last_daily_check # <<today>>
             /\ last_daily_check' = <<today>>
             /\ Len(SelectSeq(calls', LAMBDA c : c.op = "send_family_summary")) = 1
       /\ last_daily_check' # last_daily_check
          => /\ lastOp' = "tick"
             /\ \E i \in 1..Len(calls') : calls'[i].op = "send_family_summary"]_vars

C17_Witness ==
    /\ lastOp = "tick"
    /\ ~NoDataset
    /\ hour = 8
    /\ today > 0
    /\ last_daily_check = <<today>>
    /\ SummaryCalls = {}

\* the daily-summary flag was last stored as disabled
SummaryDisabled ==
    /\ "daily_summary_enabled" \in DOMAIN settings
    /\ settings["daily_summary_enabled"] = set_setting(<<>>, "daily_summary_enabled",
                                                        PyBool(FALSE))["daily_summary_enabled"]

\* C18 (as claimed): while the daily-summary flag is stored as disabled, no
\* scheduled tick attempts a family summary, at any hour.
C18_OptOutSilences ==
    (lastOp = "tick" /\ SummaryDisabled) => SummaryCalls = {}

\* the documents with a holder whose status is red, and orange or yellow
UrgentDocs == {d \in DOMAIN documents :
                  Resolvable(d) /\ get_expiry_status(documents[d].expiry_date, today)[1] = "red"}

WarningDocs == {d \in DOMAIN documents :
                   /\ Resolvable(d)
                   /\ get_expiry_status(documents[d].expiry_date, today)[1] \in {"orange", "yellow"}}

\* C19: in a scheduled tick and in check_now a document whose holder_id matches
\* no person gets no channel call and no history write and is in neither
\* count, and every document with a holder is handled as it would be
\* without it.
C19_UnresolvedSkipped ==
    (lastOp \in {"tick", "check_now"} /\ ~NoDataset) =>
        /\ \A d \in DOMAIN documents :
              ~Resolvable(d) =>
                  PushCalls(d) = {} /\ CalendarCalls(d) = {} /\ RecordUnchanged(d)
        /\ result.urgent_count = Cardinality(UrgentDocs)
        /\ result.warning_count = Cardinality(WarningDocs)
        /\ \A d \in DOMAIN documents :
              /\ (lastOp = "tick" /\ DueInTick(d)) =>
                     Cardinality(PushCalls(d)) = 1 /\ ~RecordUnchanged(d)
              /\ (lastOp = "check_now" /\ DueInCheckNow(d)) => Cardinality(PushCalls(d)) = 1

C19_Witness ==
    /\ lastOp = "tick"
    /\ people # {}
    /\ \E d, e \in DOMAIN documents :
          /\ ~Resolvable(d)
          /\ InSchedule(DaysLeft(d))
          /\ DaysLeft(d) < DaysLeft(e)
          /\ PushCalls(d) = {}
          /\ DocKey(d) \notin DOMAIN History
          /\ Resolvable(e)
          /\ PushCalls(e) # {}
    /\ result.urgent_count = 1

\* C21 (as claimed): for every document that check_now finds due (days_left <= 30)
\* it calls the calendar action of a scheduled tick for that days_left, the
\* urgent expiry warning.
C21_CheckNowCalendarAsTick ==
    lastOp = "check_now" =>
        \A d \in DOMAIN documents :
            DueInCheckNow(d) => CalendarOps(d) = <<"create_expiry_warning">>

\* the classification of document d on the day of the evaluation
StatusText(d) == get_expiry_status(documents[d].expiry_date, today)[2]

\* the documents with a holder whose classification is among texts
Classified(texts) == {d \in DOMAIN documents : Resolvable(d) /\ StatusText(d) \in texts}

-----------------------------------------------------------------------------
(* Configuration of the channels *)

\* the sends of the last evaluation that returned true, by channel
Transmitted(ch) == {i \in 1..Len(calls) : calls[i].ch = ch /\ calls[i].ret}

\* C23 (as claimed): at every send a channel transmits only when the
\* configuration stored in settings at that moment is enabled with every
\* required field non-blank, a change made while the process runs included.
C23_SendsFollowStoredConfig ==
    lastOp \in {"tick", "check_now"} =>
        /\ Transmitted("pushover") # {} => Pushover_check_configuration(settings)
        /\ Transmitted("caldav") # {} => CalDAV_check_configuration(settings)

-----------------------------------------------------------------------------
(* Classification *)

\* the evaluations kept
Evaluations == {evaluated[i] : i \in 1..Len(evaluated)}

Dated == {e \in Evaluations : e.expiry_date # None}

\* the whole calendar months from the reference day to the expiry date
MonthsLeft(e) == months_between(e.expiry_date[1], e.on)

\* C25 (as claimed): the classification is a function of the difference in
\* days: two evaluations with the same number of days between reference day
\* and expiry date return the same classification.
C25_PureInDayDifference ==
    \A e1 \in Dated, e2 \in Dated :
        e1.days_left = e2.days_left => e1.status = e2.status

\* C25 (amended): the classification is a function of the difference in days
\* and the difference in calendar months: two evaluations with the same
\* number of days return the same classification when that number is at
\* most 30 or their calendar-month differences are equal too.
C25_PureInDaysAndMonths ==
    \A e1 \in Dated, e2 \in Dated :
        (/\ e1.days_left = e2.days_left
         /\ (e1.days_left <= 30 \/ MonthsLeft(e1) = MonthsLeft(e2)))
            => e1.status = e2.status

C25_Witness ==
    \E e1 \in Dated, e2 \in Dated :
        /\ e1.on # e2.on
        /\ e1.days_left = 92 /\ e2.days_left = 92
        /\ MonthsLeft(e1) = 3 /\ MonthsLeft(e2) = 3
        /\ e1.status = <<"orange", "ActNow">> /\ e2.status = e1.status

\* the row of the table that matches first, the month thresholds stated with
\* the month added to the reference day
TableRow(days, expiry_date, on) ==
    IF days < 0 THEN <<"red", "Expired">>
    ELSE IF days <= 7 THEN <<"red", "Critical">>
    ELSE IF days <= 30 THEN <<"red", "Urgent">>
    ELSE IF expiry_date < AddMonths(on, 4) THEN <<"orange", "ActNow">>
    ELSE IF expiry_date < AddMonths(on, 7) THEN <<"yellow", "PlanRenewal">>
    ELSE <<"green", "Safe">>

\* C26: get_expiry_status returns the first match of: days < 0 Expired (red),
\* <= 7 Critical (red), <= 30 Urgent (red), calendar months <= 3 ActNow
\* (orange), <= 6 PlanRenewal (yellow), else Safe (green); the boundaries are
\* inclusive: exactly 3 calendar months after the reference day is ActNow,
\* exactly 6 is PlanRenewal, one day before it is Expired, 5 days after it
\* is Critical.
C26_ClassificationTable ==
    \A e \in Dated :
        LET days == e.expiry_date[1] - e.on
        IN /\ e.status = TableRow(days, e.expiry_date[1], e.on)
           /\ e.expiry_date[1] = AddMonths(e.on, 3) => e.status = <<"orange", "ActNow">>
           /\ e.expiry_date[1] = AddMonths(e.on, 6) => e.status = <<"yellow", "PlanRenewal">>
           /\ days = -1 => e.status = <<"red", "Expired">>
           /\ days = 5 => e.status = <<"red", "Critical">>
           /\ days \in {0, 7} => e.status = <<"red", "Critical">>
           /\ days \in {8, 30} => e.status = <<"red", "Urgent">>
           /\ days = 31 => e.status = <<"orange", "ActNow">>

C26_Witness ==
    \E e \in Dated :
        /\ e.on = 59
        /\ e.expiry_date[1] = AddMonths(e.on, 3)
        /\ e.days_left = 92
        /\ e.status = <<"orange", "ActNow">>

-----------------------------------------------------------------------------
(* The history as a frame *)

\* the history after the step is the history before it with the record of
\* document d set to the notification just sent
RecordedOnly(before, after, d) ==
    /\ DOMAIN after = DOMAIN before \cup {DocKey(d)}
    /\ after[DocKey(d)] = [days_left |-> DaysLeft(d), timestamp |-> now]
    /\ \A k \in DOMAIN before \ {DocKey(d)} : after[k] = before[k]

\* C27 (as claimed): the history holds the most recent notification of each
\* document and is never shrunk: every step of tick, check_now, start or stop
\* that changes notification_history sets the record of one document to
\* {days_left, timestamp} of that notification, replacing the earlier one, and
\* leaves every other record as it was; no step removes a key.
C27_HistoryKeepsLatestOnly ==
    [][notification_history(settings') # History =>
          \E d \in DOMAIN documents :
              RecordedOnly(History, notification_history(settings'), d)]_vars

-----------------------------------------------------------------------------
(* The rate limit of the urgent thresholds *)

\* C28: a scheduled tick of a single worker dispatches a document whose
\* days_left is 7 or less only if the document has no record or its record
\* is at least one full day old, it dispatches it once, and the record it
\* leaves carries the time of the tick: at most one dispatch in 24 hours.
C28_UrgentOncePerDay ==
    lastOp = "tick" =>
        \A d \in DOMAIN documents :
            (DaysLeft(d) <= 7 /\ PushCalls(d) # {}) =>
                /\ ~HadRecord(d) \/ now - OldRecord(d).timestamp >= 24
                /\ Cardinality(PushCalls(d)) = 1
                /\ History[DocKey(d)].timestamp = now

C28_Witness ==
    /\ lastOp = "tick"
    /\ \E d \in DOMAIN documents :
          /\ Resolvable(d)
          /\ DaysLeft(d) <= 7
          /\ InSchedule(DaysLeft(d))
          /\ HadRecord(d)
          /\ OldRecord(d).days_left # DaysLeft(d)
          /\ OldRecord(d).days_left <= 7
          /\ now - OldRecord(d).timestamp < 24
          /\ PushCalls(d) = {}
          /\ RecordUnchanged(d)

-----------------------------------------------------------------------------
(* Renewal *)

\* the expiry date of document d was changed after its record was written:
\* the record's days_left, counted from the day of its timestamp, is not the
\* expiry date the document has now
Renewed(d) ==
    /\ HadRecord(d)
    /\ documents[d].expiry_date # (OldRecord(d).timestamp \div 24) + OldRecord(d).days_left

\* C29 (as claimed): a scheduled tick dispatches a document whose expiry date
\* was changed after its record was written and whose days_left is a schedule
\* offset, also when that offset is the days_left of the old record (the
\* one-day hold of offsets of 7 days or less aside).
C29_ReminderAfterRenewal ==
    lastOp = "tick" =>
        \A d \in DOMAIN documents :
            ( /\ Resolvable(d)
              /\ Renewed(d)
              /\ InSchedule(DaysLeft(d))
              /\ DaysLeft(d) > 7 \/ now - OldRecord(d).timestamp >= 24 )
            => PushCalls(d) # {}

-----------------------------------------------------------------------------
(* The renewal reminder *)

\* the create_renewal_reminder calls of the last evaluation
ReminderCalls == {i \in 1..Len(calls) : calls[i].op = "create_renewal_reminder"}

\* C30: create_renewal_reminder saves an event only when expiry_date - 180
\* days is today or later, that is days_left >= 180: a reminder that the
\* scheduled tick (30 < days_left < 180) or check_now (7 < days_left <= 30)
\* asks for on a document with days_left < 180 returns false, no event saved.
C30_PastReminderSkipped ==
    lastOp \in {"tick", "check_now"} =>
        \A i \in ReminderCalls :
            /\ calls[i].ret => DaysLeft(calls[i].doc) >= 180
            /\ lastOp = "tick" => DaysLeft(calls[i].doc) > 30 /\ DaysLeft(calls[i].doc) <= 180
            /\ lastOp = "check_now" =>
                  /\ DaysLeft(calls[i].doc) > 7 /\ DaysLeft(calls[i].doc) <= 30
                  /\ ~calls[i].ret

C30_Witness ==
    /\ lastOp = "tick"
    /\ caldav_enabled
    /\ \E i \in ReminderCalls :
          /\ DaysLeft(calls[i].doc) = 31
          /\ ~calls[i].ret
          /\ \E j \in PushCalls(calls[i].doc) : calls[j].ret

====
